---- MODULE Spec2Model ----
(***************************************************************************)
(* A model of sultan's command builder (src/sultan/api.py): the Sultan     *)
(* builder with its command buffer and context stack, the tokens it        *)
(* accumulates (Command, Pipe, And, Or, Redirect), the rendering of the    *)
(* buffer into one shell line with its cd/source/sudo/ssh wrapping, and    *)
(* run().                                                                  *)
(*                                                                         *)
(* Python strings are TLA+ strings; the other Python values that the code  *)
(* stores in a context or receives as arguments are tagged records, so     *)
(* that None, "", False and {} stay distinct values with Python's          *)
(* truthiness and Python's str().                                          *)
(***************************************************************************)
EXTENDS Integers, Sequences, FiniteSets, TLC

VARIABLES
    invoker,    \* what getpass.getuser() returns in this process
    built,      \* TRUE once the builder object exists
    _context,   \* Sultan._context: the context stack (a list of dicts)
    heap,       \* the token objects the builder's buffer refers to
    commands,   \* Sultan.commands: the buffer, a list of references into heap
    blocks,     \* the open with-blocks: for each, the stack as it was before __enter__
    last        \* what the last call did: its name, what it raised, what it handed on
                \* (args: the arguments of a run or of a Config; shell: what run gave
                \* Popen; ret: what was returned; before: for an __exit__, the stack
                \* before the matching __enter__ and the stack before the __exit__)

vars == <<invoker, built, _context, heap, commands, blocks, last>>

-----------------------------------------------------------------------------
(* Bounds *)

MaxCmds == 2        \* longest buffer explored over a builder's whole life (Spec)
MaxNest == 2        \* deepest nesting of with-blocks explored (Spec)
MaxBody == 2        \* longest buffer explored under every context (SpecContext)
MaxTokens == 3      \* longest buffer explored with every kind of token (SpecTokens)

-----------------------------------------------------------------------------
(* Python values *)

None == [t |-> "None"]
S(s) == [t |-> "str", s |-> s]
B(b) == [t |-> "bool", b |-> b]
D(m) == [t |-> "dict", m |-> m]                 \* m: a set of <<key, value>> pairs
SSHConfigObj(c) == [t |-> "SSHConfig", config |-> c]   \* c: a list of <<key, value>> pairs

\* bool(v)
Truthy(v) ==
    CASE v.t = "None" -> FALSE
      [] v.t = "str" -> v.s # ""
      [] v.t = "bool" -> v.b
      [] v.t = "dict" -> v.m # {}
      [] OTHER -> TRUE

\* dict.get(k, default)
Get(d, k, default) == IF k \in DOMAIN d THEN d[k] ELSE default

\* dict.update: the entries of new replace those of d
Update(d, new) == new @@ d

Whitespace == {" ", "\t", "\n", "\r"}

RECURSIVE LStrip(_)
LStrip(s) ==
    IF s # "" /\ Head(s) \in Whitespace THEN LStrip(Tail(s)) ELSE s

RECURSIVE RStrip(_)
RStrip(s) ==
    IF s # "" /\ SubSeq(s, Len(s), Len(s)) \in Whitespace
    THEN RStrip(SubSeq(s, 1, Len(s) - 1))
    ELSE s

\* str.strip()
Strip(s) == RStrip(LStrip(s))

\* sep.join(list)
RECURSIVE Join(_, _)
Join(list, sep) ==
    IF list = <<>> THEN ""
    ELSE IF Len(list) = 1 THEN list[1]
    ELSE list[1] \o sep \o Join(Tail(list), sep)

\* os.path.join(a, b) for one component
PathJoin(a, b) ==
    IF b # "" /\ Head(b) = "/" THEN b
    ELSE IF a = "" \/ SubSeq(a, Len(a), Len(a)) = "/" THEN a \o b
    ELSE a \o "/" \o b


\* str(v), and what an f-string or a %s puts in place of v
Str(v) ==
    CASE v.t = "None" -> "None"
      [] v.t = "str" -> v.s
      [] v.t = "bool" -> (IF v.b THEN "True" ELSE "False")

-----------------------------------------------------------------------------
(* Tokens.  A token object has a class, the command text, the positional   *)
(* arguments (strings) and the options, an insertion-ordered dict kept as  *)
(* a list of <<name, value>> pairs.                                        *)

\* BaseCommand.__init__
BaseCommand(cls, name) ==
    [cls |-> cls, command |-> name, args |-> <<>>, kwargs |-> <<>>]

\* the option strings with "--" before every name
RECURSIVE kwargs_list_AlwaysDouble(_)
kwargs_list_AlwaysDouble(kwargs) ==
    IF kwargs = <<>> THEN <<>>
    ELSE <<"--" \o kwargs[1][1] \o "=" \o Str(kwargs[1][2])>>
            \o kwargs_list_AlwaysDouble(Tail(kwargs))

\* the "-k=v" / "--k=v" strings of Command.__str__, in the dict's order
RECURSIVE kwargs_list(_)
kwargs_list(kwargs) ==
    IF kwargs = <<>> THEN <<>>
    ELSE LET k == kwargs[1][1]
             value == kwargs[1][2]
             key == IF Len(k) = 1 THEN "-" \o k ELSE "--" \o k
         IN  <<key \o "=" \o Str(value)>> \o kwargs_list(Tail(kwargs))

Command__str__(self) ==
    LET args_str == Strip(Join(self.args, " "))
        kwargs_str == Strip(Join(kwargs_list(self.kwargs), " "))
        o1 == IF kwargs_str # "" THEN self.command \o " " \o kwargs_str
              ELSE self.command
    IN  IF args_str # "" THEN o1 \o " " \o args_str ELSE o1

\* str(cmd): Command.__str__, or the __str__ of Pipe, And, Or and Redirect
TokenStr(tok) ==
    IF tok.cls = "Command" THEN Command__str__(tok) ELSE tok.command

-----------------------------------------------------------------------------
(* Config and SSHConfig *)

SSHConfig_params_map ==
    [identity_file |-> [shorthand |-> "-i", required |-> FALSE],
     port          |-> [shorthand |-> "-p", required |-> FALSE]]

\* the params_map of each class: Config's own is empty, SSHConfig's is above,
\* and PortConfig stands for a subclass a caller writes with a required key
params_map(cls) ==
    CASE cls = "Config" -> <<>>
      [] cls = "SSHConfig" -> SSHConfig_params_map
      [] cls = "PortConfig" -> [port |-> [shorthand |-> "-p", required |-> TRUE]]

\* validate_config without its second loop
validate_config_RequiredOnly(params_map_, config) ==
    \A key \in DOMAIN params_map_ :
        params_map_[key].required => \E i \in DOMAIN config : config[i][1] = key

\* Config.validate_config: TRUE when it raises no ValueError
validate_config(params_map_, config) ==
    /\ \A key \in DOMAIN params_map_ :
          params_map_[key].required => \E i \in DOMAIN config : config[i][1] = key
    /\ \A i \in DOMAIN config : config[i][1] \in DOMAIN params_map_

RECURSIVE ConfigWords(_, _)
ConfigWords(params_map_, config) ==
    IF config = <<>> THEN <<>>
    ELSE <<params_map_[config[1][1]].shorthand, Str(config[1][2])>>
            \o ConfigWords(params_map_, Tail(config))

Config__str__(params_map_, config) == Join(ConfigWords(params_map_, config), " ")

-----------------------------------------------------------------------------
(* Rendering *)

SPECIAL_CASES == {"Pipe", "And", "Redirect", "Or"}

\* the loop without its case for the first token
Separator_NoFirstCase(cmds, i) ==
    IF cmds[i].cls \in SPECIAL_CASES THEN " "
    ELSE IF i > 1 /\ cmds[i - 1].cls \in SPECIAL_CASES THEN " " ELSE "; "

\* the loop without its look at the token before a plain command
Separator_IgnoresPrevious(cmds, i) ==
    IF i = 1 THEN ""
    ELSE IF cmds[i].cls \in SPECIAL_CASES THEN " " ELSE "; "

\* the separator the loop of Sultan.__str__ puts before token i
Separator(cmds, i) ==
    IF i = 1 THEN ""
    ELSE IF cmds[i].cls \in SPECIAL_CASES THEN " "
    ELSE IF cmds[i - 1].cls \in SPECIAL_CASES THEN " " ELSE "; "

\* output after the loop has handled the first n tokens
RECURSIVE Loop(_, _)
Loop(cmds, n) ==
    IF n = 0 THEN ""
    ELSE Loop(cmds, n - 1) \o Separator(cmds, n) \o TokenStr(cmds[n])

\* the line before any context is applied
Body(cmds) == Strip(Loop(cmds, Len(cmds))) \o ";"

WithCwd(context, output) ==
    LET cwd == Get(context, "cwd", None)
    IN  IF Truthy(cwd) THEN "cd " \o Str(cwd) \o " && " \o output ELSE output

WithSrc(context, output) ==
    LET src == Get(context, "src", None)
    IN  IF Truthy(src) THEN "source " \o Str(src) \o " && " \o output ELSE output

\* the sudo wrap with the test for root made first
WithSudo_RootFirst(context, getuser, output) ==
    LET sudo == Get(context, "sudo", None)
        user == Get(context, "user", None)
    IN  IF Truthy(sudo)
        THEN IF getuser = "root"
             THEN "su - " \o Str(user) \o " -c '" \o output \o "'"
             ELSE IF user # S(getuser)
             THEN "sudo su - " \o Str(user) \o " -c '" \o output \o "'"
             ELSE "sudo " \o output
        ELSE output

WithSudo(context, getuser, output) ==
    LET sudo == Get(context, "sudo", None)
        user == Get(context, "user", None)
    IN  IF Truthy(sudo)
        THEN IF user # S(getuser)
             THEN "sudo su - " \o Str(user) \o " -c '" \o output \o "'"
             ELSE IF getuser = "root"
             THEN "su - " \o Str(user) \o " -c '" \o output \o "'"
             ELSE "sudo " \o output
        ELSE output

\* the ssh wrap with the options padded whether they are there or not
WithSsh_AlwaysPadded(context, output) ==
    LET ssh_config == Get(context, "ssh_config", S(""))
        user == Get(context, "user", None)
        hostname == Get(context, "hostname", None)
    IN  IF Truthy(hostname)
        THEN "ssh " \o Str(ssh_config) \o " "
                    \o Str(user) \o "@" \o Str(hostname) \o " '" \o output \o "'"
        ELSE output

WithSsh(context, output) ==
    LET ssh_config == Get(context, "ssh_config", None)
        user == Get(context, "user", None)
        hostname == Get(context, "hostname", None)
    IN  IF Truthy(hostname)
        THEN "ssh" \o (IF Truthy(ssh_config) THEN " " \o Str(ssh_config) \o " " ELSE " ")
                   \o Str(user) \o "@" \o Str(hostname) \o " '" \o output \o "'"
        ELSE output

\* Sultan.current_context
current_context(stack) == IF Len(stack) > 0 THEN stack[Len(stack)] ELSE <<>>

\* Sultan.__str__ with the source prefix put on before the cd prefix
Sultan__str__CdOutermost(cmds, context, getuser) ==
    WithSsh(context, WithSudo(context, getuser, WithCwd(context, WithSrc(context, Body(cmds)))))

\* Sultan.__str__ for a buffer of tokens, an active context and an invoking user
Sultan__str__(cmds, context, getuser) ==
    WithSsh(context, WithSudo(context, getuser, WithSrc(context, WithCwd(context, Body(cmds)))))

-----------------------------------------------------------------------------
(* The world outside the builder *)

\* the paths for which os.path.exists is true
ExistingPaths == {"/t", "/s", "/t/ls"}

exists(path) == path \in ExistingPaths

\* os.environ, as a set of <<name, value>> pairs
os_environ == {<<"HOME", "/r">>}

\* the environment the child of subprocess.Popen(..., env=env) runs with:
\* the parent's when env is None, the given mapping (an empty one too) otherwise
ChildEnv(env) == IF env = None THEN os_environ ELSE env.m

\* name.replace('__', '-')
RECURSIVE ReplaceDunder(_)
ReplaceDunder(name) ==
    IF Len(name) < 2 THEN name
    ELSE IF SubSeq(name, 1, 2) = "__"
    THEN "-" \o ReplaceDunder(SubSeq(name, 3, Len(name)))
    ELSE Head(name) \o ReplaceDunder(Tail(name))

-----------------------------------------------------------------------------
(* State *)

\* what a call leaves behind for the caller to see
Outcome(op, raised) ==
    [op |-> op, raised |-> raised, args |-> <<>>, shell |-> <<>>, ret |-> <<>>,
     before |-> <<>>]

\* the token objects of the buffer, in order
Tokens == [i \in 1..Len(commands) |-> heap[commands[i]]]

\* str(self) of the builder as it is now
Rendered == Sultan__str__(Tokens, current_context(_context), invoker)

Invokers == {"root", "al"}

Init ==
    /\ invoker \in Invokers
    /\ built = FALSE
    /\ _context = <<>>
    /\ heap = <<>>
    /\ commands = <<>>
    /\ blocks = <<>>
    /\ last = Outcome("start", "")

-----------------------------------------------------------------------------
(* Construction *)

\* Sultan.__init__(context); context is None or a dict
Sultan__init__(context) ==
    /\ commands' = <<>>
    /\ heap' = <<>>
    /\ _context' = IF context # None THEN <<context>> ELSE <<>>
    /\ built' = TRUE

\* the dict Sultan.load builds from its arguments
LoadContext(p, getuser) ==
    Update([cwd        |-> p.cwd,
            sudo       |-> p.sudo,
            hostname   |-> p.hostname,
            ssh_config |-> IF Truthy(p.ssh_config)
                           THEN S(Config__str__(SSHConfig_params_map, p.ssh_config.config))
                           ELSE S(""),
            env        |-> IF Truthy(p.env) THEN p.env ELSE None,
            logging    |-> p.logging,
            src        |-> p.src,
            user       |-> IF Truthy(p.user) THEN p.user ELSE S(getuser)],
           p.kwargs)

\* what Sultan.load raises for its arguments, "" when it raises nothing
LoadRaises(p) ==
    IF Truthy(p.ssh_config) /\ p.ssh_config.t # "SSHConfig" THEN "ValueError"
    ELSE IF Truthy(p.src) /\ ~exists(Str(p.src)) THEN "IOError"
    ELSE ""

\* s = Sultan.load(cwd=..., sudo=..., ...)
load(p) ==
    /\ ~built
    /\ IF LoadRaises(p) # ""
       THEN /\ last' = Outcome("load", LoadRaises(p))
            /\ UNCHANGED <<built, _context, heap, commands>>
       ELSE /\ Sultan__init__(LoadContext(p, invoker))
            /\ last' = Outcome("load", "")
    /\ UNCHANGED <<invoker, blocks>>

\* s = Sultan(context) or s = Sultan()
new(context) ==
    /\ ~built
    /\ Sultan__init__(context)
    /\ last' = Outcome("new", "")
    /\ UNCHANGED <<invoker, blocks>>

\* cls(**config) for a Config class: Config.__init__ keeps the config and
\* validates it
Config__init__(cls, config) ==
    /\ LET raised == IF validate_config(params_map(cls), config) THEN "" ELSE "ValueError"
       IN  last' = [Outcome("Config", raised) EXCEPT
                       !.args = <<cls, config>>,
                       !.ret = IF raised = "" THEN <<[t |-> cls, config |-> config]>>
                               ELSE <<>>]
    /\ UNCHANGED <<invoker, built, _context, heap, commands, blocks>>

-----------------------------------------------------------------------------
(* with-blocks.  `with s:` calls s.__enter__(); if that raises, the block   *)
(* is not entered and __exit__ is not called.  Leaving the block, normally  *)
(* or by an exception (type), calls s.__exit__(type, value, traceback);     *)
(* __exit__ returns None, so an exception goes on to the caller.            *)

\* __enter__ without its test of the stack
__enter__Unchecked ==
    /\ built
    /\ Len(blocks) < MaxNest
    /\ last' = Outcome("enter", "")
    /\ blocks' = Append(blocks, _context)
    /\ UNCHANGED <<invoker, built, _context, heap, commands>>

__enter__ ==
    /\ built
    /\ Len(blocks) < MaxNest
    /\ IF Len(_context) = 0
       THEN /\ last' = Outcome("enter", "InvalidContextError")
            /\ UNCHANGED blocks
       ELSE /\ last' = Outcome("enter", "")
            /\ blocks' = Append(blocks, _context)
    /\ UNCHANGED <<invoker, built, _context, heap, commands>>

\* __exit__ with the pop made without the test of the stack's length
__exit__Unguarded(type) ==
    /\ built
    /\ blocks # <<>>
    /\ _context' = SubSeq(_context, 1, Len(_context) - 1)
    /\ blocks' = SubSeq(blocks, 1, Len(blocks) - 1)
    /\ last' = [Outcome("exit", IF Len(_context) > 0 THEN type ELSE "IndexError")
                   EXCEPT !.before = <<blocks[Len(blocks)], _context>>]
    /\ UNCHANGED <<invoker, built, heap, commands>>

__exit__(type) ==
    /\ built
    /\ blocks # <<>>
    /\ _context' = IF Len(_context) > 0
                   THEN SubSeq(_context, 1, Len(_context) - 1)
                   ELSE _context
    /\ blocks' = SubSeq(blocks, 1, Len(blocks) - 1)
    /\ last' = [Outcome("exit", type) EXCEPT !.before = <<blocks[Len(blocks)], _context>>]
    /\ UNCHANGED <<invoker, built, heap, commands>>

-----------------------------------------------------------------------------
(* Chaining calls.  s.<name> makes a new Command (or Redirect) object each  *)
(* time; the caller may keep such a handle and call it again, so a call is  *)
(* made either on a new object (h = 0) or on an object already in the       *)
(* buffer (h its reference).  Handles are followed only while the buffer    *)
(* still holds the object: clear() forgets them.                            *)

HasKey(kwargs, k) == \E i \in DOMAIN kwargs : kwargs[i][1] = k

Value(kwargs, k) == kwargs[CHOOSE i \in DOMAIN kwargs : kwargs[i][1] = k][2]

\* kwargs after kwargs.pop(k)
Pop(kwargs, k) == SelectSeq(kwargs, LAMBDA kv : kv[1] # k)

\* Sultan._add
_add(h, tok) ==
    IF h = 0
    THEN /\ heap' = Append(heap, tok)
         /\ commands' = Append(commands, Len(heap) + 1)
    ELSE /\ heap' = [heap EXCEPT ![h] = tok]
         /\ commands' = Append(commands, h)

\* Sultan.__getattr__(name)
__getattr__(name) ==
    IF name = "redirect" THEN BaseCommand("Redirect", name)
    ELSE BaseCommand("Command", ReplaceDunder(name))

\* what Command.__call__ raises, "" when it raises nothing
CommandRaises(self, kwargs) ==
    IF HasKey(kwargs, "where")
    THEN LET where == Str(Value(kwargs, "where"))
         IN  IF ~exists(where) THEN "IOError"
             ELSE IF ~exists(PathJoin(where, self.command)) THEN "IOError"
             ELSE ""
    ELSE ""

\* the Command object after a Command.__call__ that did not raise
CommandCalled(self, args, kwargs) ==
    LET c1 == IF HasKey(kwargs, "where")
              THEN LET where == Str(Value(kwargs, "where"))
                   IN  PathJoin(where, PathJoin(where, self.command))
              ELSE self.command
        k1 == Pop(kwargs, "where")
        c2 == IF HasKey(k1, "sudo") THEN "sudo " \o c1 ELSE c1
        k2 == Pop(k1, "sudo")
    IN  [self EXCEPT !.command = c2,
                     !.args = [i \in DOMAIN args |-> Str(args[i])],
                     !.kwargs = k2]

\* the handles a call can be made on: a new object, or one of class cls in the buffer
Handles(cls) == {0} \cup {h \in DOMAIN heap : heap[h].cls = cls}

\* s.<name>(*args, **kwargs), or handle(*args, **kwargs) for a handle kept from s.<name>
Command__call__(h, name, args, kwargs) ==
    /\ built
    /\ name # "redirect"
    /\ h \in Handles("Command")
    /\ LET self == IF h = 0 THEN __getattr__(name) ELSE heap[h]
       IN  IF CommandRaises(self, kwargs) # ""
           THEN /\ last' = Outcome("command", CommandRaises(self, kwargs))
                /\ UNCHANGED <<heap, commands>>
           ELSE /\ _add(h, CommandCalled(self, args, kwargs))
                /\ last' = Outcome("command", "")
    /\ UNCHANGED <<invoker, built, _context, blocks>>

pipe ==
    /\ built
    /\ _add(0, BaseCommand("Pipe", "|"))
    /\ last' = Outcome("pipe", "")
    /\ UNCHANGED <<invoker, built, _context, blocks>>

and_ ==
    /\ built
    /\ _add(0, BaseCommand("And", "&&"))
    /\ last' = Outcome("and_", "")
    /\ UNCHANGED <<invoker, built, _context, blocks>>

or_ ==
    /\ built
    /\ _add(0, BaseCommand("Or", "||"))
    /\ last' = Outcome("or_", "")
    /\ UNCHANGED <<invoker, built, _context, blocks>>

\* Redirect.__call__ with stdout as the choice when none is made
Descriptor_DefaultsToStdout(stdout, stderr) ==
    IF stdout /\ stderr THEN "&"
    ELSE IF stderr THEN "2"
    ELSE "1"

\* the descriptor Redirect.__call__ chooses, "" when it raises ValueError
Descriptor(stdout, stderr) ==
    IF stdout /\ stderr THEN "&"
    ELSE IF stdout THEN "1"
    ELSE IF stderr THEN "2"
    ELSE ""

\* Redirect.__call__ without its look at append
RedirectCalled_NeverAppends(self, to_file, append, stdout, stderr) ==
    [self EXCEPT !.command = Descriptor(stdout, stderr) \o ">" \o " " \o Str(to_file)]

\* the Redirect object after a Redirect.__call__ that did not raise
RedirectCalled(self, to_file, append, stdout, stderr) ==
    [self EXCEPT !.command = Descriptor(stdout, stderr) \o ">"
                                \o (IF append THEN ">" ELSE "") \o " " \o Str(to_file)]

\* s.redirect(to_file, append, stdout, stderr), or the same on a kept handle
Redirect__call__(h, to_file, append, stdout, stderr) ==
    /\ built
    /\ h \in Handles("Redirect")
    /\ LET self == IF h = 0 THEN __getattr__("redirect") ELSE heap[h]
       IN  IF Descriptor(stdout, stderr) = ""
           THEN /\ last' = Outcome("redirect", "ValueError")
                /\ UNCHANGED <<heap, commands>>
           ELSE /\ _add(h, RedirectCalled(self, to_file, append, stdout, stderr))
                /\ last' = Outcome("redirect", "")
    /\ UNCHANGED <<invoker, built, _context, blocks>>

\* clear() that leaves the first token: del self.commands[1:]
Cleared_KeepsFirst ==
    /\ commands' = IF commands = <<>> THEN <<>> ELSE <<commands[1]>>
    /\ heap' = heap

\* Sultan.clear
Cleared ==
    /\ commands' = <<>>
    /\ heap' = <<>>

clear ==
    /\ built
    /\ Cleared
    /\ last' = Outcome("clear", "")
    /\ UNCHANGED <<invoker, built, _context, blocks>>

\* str(s) that uses the buffer up, as run() does
render_Consuming ==
    /\ built
    /\ last' = [Outcome("str", "") EXCEPT !.ret = <<Rendered>>]
    /\ Cleared
    /\ UNCHANGED <<invoker, built, _context, blocks>>

\* str(s): Sultan.__str__ called by the caller; it only reads
render ==
    /\ built
    /\ last' = [Outcome("str", "") EXCEPT !.ret = <<Rendered>>]
    /\ UNCHANGED <<invoker, built, _context, heap, commands, blocks>>

-----------------------------------------------------------------------------
(* run.  What subprocess.Popen(...).communicate() does is an input: it      *)
(* raises, or it returns the child's stdout and stderr as two strings.      *)
(* Echo's logging calls and Result's printing calls are output only.        *)

\* the env argument run() gives to Popen
RunEnv(stack) ==
    IF Len(stack) > 0 THEN Get(stack[1], "env", D({})) ELSE D(os_environ)

\* the Result run() returns, when it returns
RunResult(popen) ==
    IF popen.raises
    THEN [stdout |-> None, stderr |-> None, traceback |-> S("Traceback")]
    ELSE [stdout |-> S(popen.stdout), stderr |-> S(popen.stderr), traceback |-> None]

\* run with the clear() after the return instead of in a finally clause
RunFinally_OnlyOnReturn(raised) ==
    IF raised = "" THEN Cleared ELSE UNCHANGED <<heap, commands>>

\* the finally clause of run: on every way out, clear the buffer
RunFinally(raised) == Cleared

\* run that takes halt_on_nonzero by its name: it also raises when the command
\* wrote to stderr
RunRaises_OnStderr(halt_on_nonzero, popen) ==
    IF halt_on_nonzero /\ (popen.raises \/ popen.stderr # "") THEN "Exception" ELSE ""

\* what run() raises, "" when it returns: the except clause re-raises what
\* Popen or communicate raised, if halt_on_nonzero
RunRaises(halt_on_nonzero, popen) ==
    IF popen.raises /\ halt_on_nonzero THEN "Exception" ELSE ""

run(halt_on_nonzero, popen) ==
    /\ built
    /\ LET raised == RunRaises(halt_on_nonzero, popen)
       IN  /\ last' = [Outcome("run", raised) EXCEPT
                          !.args = <<halt_on_nonzero, popen>>,
                          !.shell = <<[line |-> Rendered, env |-> ChildEnv(RunEnv(_context))]>>,
                          !.ret = IF raised = "" THEN <<RunResult(popen)>> ELSE <<>>]
           /\ RunFinally(raised)
    /\ UNCHANGED <<invoker, built, _context, blocks>>

-----------------------------------------------------------------------------
(* Inputs *)

\* the defaults of Sultan.load's parameters
LoadDefaults ==
    [cwd |-> None, sudo |-> B(FALSE), user |-> None, hostname |-> None, env |-> None,
     logging |-> B(TRUE), ssh_config |-> None, src |-> None, kwargs |-> <<>>]

\* Sultan.load calls that differ from the defaults in one argument
LoadInputs ==
    {LoadDefaults}
    \cup {[LoadDefaults EXCEPT !.env = e] : e \in {D({}), D({<<"K", "v">>})}}
    \cup {[LoadDefaults EXCEPT !.cwd = c] : c \in {S("/t"), S("/x")}}
    \cup {[LoadDefaults EXCEPT !.src = f] : f \in {S("/s"), S("/x")}}
    \cup {[LoadDefaults EXCEPT !.ssh_config = D({<<"port", "22">>})]}

\* Sultan.load calls with every combination of the arguments that rendering reads
ContextInputs ==
    {[LoadDefaults EXCEPT !.cwd = c, !.src = f, !.sudo = B(su), !.user = u,
                          !.hostname = hn, !.ssh_config = sc] :
        c \in {None, S("/t")}, f \in {None, S("/s")}, su \in BOOLEAN,
        u \in {None, S("al")}, hn \in {None, S("h")},
        sc \in {None, SSHConfigObj(<<>>), SSHConfigObj(<<<<"port", S("22")>>>>),
                SSHConfigObj(<<<<"identity_file", S("k")>>, <<"port", S("22")>>>>)}}

\* contexts given to Sultan(context) directly; None is Sultan()
DirectContexts ==
    {None,
     <<>>,
     [sudo |-> B(TRUE)],
     [cwd |-> S("/t"), env |-> None],
     [cwd |-> S("/t"), env |-> D({<<"K", "v">>})]}

\* contexts given directly that leave out keys that rendering reads
PartialContexts ==
    {[sudo |-> B(TRUE)],
     [hostname |-> S("h")],
     [hostname |-> S("h"), ssh_config |-> S("-p 22")],
     [sudo |-> B(TRUE), hostname |-> S("h"), src |-> S("/s")],
     [sudo |-> B(TRUE), user |-> S("al"), cwd |-> S("/t")]}

\* the arguments of the command calls of a builder's life: found, and not found
WhereLists ==
    {<<>>, <<<<"where", S("/t")>>>>, <<<<"where", S("/x")>>>>, <<<<"where", S("/s")>>>>}

\* the command calls s.<name>(*args, **kwargs) made with every kind of token
CmdCalls ==
    {[name |-> "ls", args |-> <<>>, kwargs |-> <<>>],
     [name |-> "cat", args |-> <<S("/var/log/x.log")>>, kwargs |-> <<>>],
     [name |-> "grep", args |-> <<S("abc")>>, kwargs |-> <<>>],
     [name |-> "apt__get", args |-> <<S("install"), S("x")>>,
      kwargs |-> <<<<"y", S("1")>>, <<"quiet", S("2")>>>>],
     [name |-> "ls", args |-> <<S("a")>>, kwargs |-> <<<<"sudo", B(TRUE)>>>>],
     [name |-> "ls", args |-> <<S("")>>, kwargs |-> <<<<"l", S("1")>>>>]}
Files == {S("f")}

\* the classes and the keyword arguments of the Config constructions
ConfigClasses == {"Config", "SSHConfig", "PortConfig"}
ConfigInputs ==
    {<<>>,
     <<<<"port", S("22")>>>>,
     <<<<"identity_file", S("k")>>, <<"port", S("22")>>>>,
     <<<<"timeout", S("5")>>>>,
     <<<<"port", S("22")>>, <<"timeout", S("5")>>>>}

PopenOutcomes ==
    {[raises |-> TRUE,  stdout |-> "",    stderr |-> ""],
     [raises |-> FALSE, stdout |-> "out", stderr |-> ""],
     [raises |-> FALSE, stdout |-> "",    stderr |-> "err"],
     [raises |-> FALSE, stdout |-> "",    stderr |-> ""]}

ExitTypes == {"", "Exception"}

\* the buffer has fewer than n tokens
Room(n) == Len(commands) < n

-----------------------------------------------------------------------------
(* Spec: one builder from its construction on: with-blocks, chaining calls, *)
(* clear, str and run, in any order.  Of the three operator calls only      *)
(* pipe() is taken here; and_() and or_() differ from it in the operator's  *)
(* text alone and are taken in SpecTokens.                                  *)

Next ==
    \/ \E p \in LoadInputs : load(p)
    \/ \E context \in DirectContexts : new(context)
    \/ __enter__
    \/ \E type \in ExitTypes : __exit__(type)
    \/ \E h \in Handles("Command"), kwargs \in WhereLists :
          Room(MaxCmds) /\ Command__call__(h, "ls", <<>>, kwargs)
    \/ Room(MaxCmds) /\ pipe
    \/ \E h \in Handles("Redirect"), stdout \in BOOLEAN :
          Room(MaxCmds) /\ Redirect__call__(h, S("f"), FALSE, stdout, FALSE)
    \/ clear
    \/ render
    \/ \E halt_on_nonzero \in BOOLEAN, popen \in PopenOutcomes : run(halt_on_nonzero, popen)

Spec == Init /\ [][Next]_vars

(* SpecContext: builders under every context, with short buffers.           *)

NextContext ==
    \/ \E p \in ContextInputs : load(p)
    \/ \E cls \in ConfigClasses, config \in ConfigInputs : Config__init__(cls, config)
    \/ \E context \in PartialContexts : new(context)
    \/ Room(MaxBody) /\ Command__call__(0, "ls", <<S("a")>>, <<>>)
    \/ Room(MaxBody) /\ pipe

SpecContext == Init /\ [][NextContext]_vars

(* SpecTokens: buffers of every kind of token, under a few contexts.        *)

NextTokens ==
    \/ load(LoadDefaults)
    \/ \E h \in Handles("Command"), c \in CmdCalls :
          Room(MaxTokens) /\ Command__call__(h, c.name, c.args, c.kwargs)
    \/ Room(MaxTokens) /\ pipe
    \/ Room(MaxTokens) /\ and_
    \/ Room(MaxTokens) /\ or_
    \/ \E h \in Handles("Redirect"), to_file \in Files, append \in BOOLEAN,
          stdout \in BOOLEAN, stderr \in BOOLEAN :
          Room(MaxTokens) /\ Redirect__call__(h, to_file, append, stdout, stderr)
    \/ clear

SpecTokens == Init /\ [][NextTokens]_vars

-----------------------------------------------------------------------------
(* Properties *)

\* the active context
Active == current_context(_context)

\* C1: after any call to run(), whatever the buffer held and however run()
\* ended (a Result returned, or the exception of a failed invocation passed
\* on), the command buffer is empty.
C1_BufferEmptyAfterRun == last.op = "run" => commands = <<>>

\* a run() that passed its exception on, called with a buffer that held a token
C1_Witness ==
    /\ last.op = "run"
    /\ last.raised = "Exception"
    /\ last.shell[1].line = "ls |;"

\* C2: after every matched __enter__/__exit__ pair the context stack is what
\* it was immediately before the __enter__.
C2_ExitRestoresStack == last.op = "exit" => _context = last.before[1]

\* the environment run() should give the shell: the active context's env when
\* it sets one, the inherited environment otherwise
ExpectedEnv ==
    LET env == Get(Active, "env", None)
    IN  IF env # None THEN env.m ELSE os_environ

\* C3: run() invokes the shell with the env mapping of the active context when
\* that context sets one, and with the inherited process environment when the
\* stack is empty or the active context has no env (key missing, or None).
C3_ShellEnvironment == last.op = "run" => last.shell[1].env = ExpectedEnv

\* every token of the buffer is a plain command
PlainOnly == \A i \in DOMAIN Tokens : Tokens[i].cls = "Command"

\* C4: a buffer of plain commands only renders as the commands with "; "
\* between consecutive ones, nothing before the first, and one ";" at the end.
C4_PlainCommandsSeparated ==
    PlainOnly =>
        Rendered = Join([i \in DOMAIN Tokens |-> Command__str__(Tokens[i])], "; ") \o ";"

\* three plain commands, rendered
C4_Witness ==
    /\ Len(commands) = 3
    /\ PlainOnly
    /\ Rendered = "ls; apt-get -y=1 --quiet=2 install x; grep abc;"

\* the rendering of the first n tokens of the buffer, without its final ";"
Upto(n) ==
    LET line == Sultan__str__(SubSeq(Tokens, 1, n), Active, invoker)
    IN  SubSeq(line, 1, Len(line) - 1)

\* C5: a plain command that follows an operator token (pipe, and, or,
\* redirect), and every operator token but a first one, is rendered one space
\* after the rendering of the tokens before it, which does not end in ";" or
\* in a space.
C5_OneSpaceAroundOperators ==
    \A i \in 2..Len(commands) :
        (Tokens[i].cls \in SPECIAL_CASES \/ Tokens[i - 1].cls \in SPECIAL_CASES) =>
            /\ Upto(i) = Upto(i - 1) \o " " \o TokenStr(Tokens[i])
            /\ SubSeq(Upto(i - 1), Len(Upto(i - 1)), Len(Upto(i - 1))) \notin {";", " "}

\* s.cat("/var/log/x.log").pipe().grep("abc"), rendered
C5_Witness ==
    /\ Len(commands) = 3
    /\ Tokens[2].cls = "Pipe"
    /\ Rendered = "cat /var/log/x.log | grep abc;"

\* the four layers, each written out from the context: "" when the layer is off
CdPrefix ==
    IF Truthy(Get(Active, "cwd", None)) THEN "cd " \o Str(Active.cwd) \o " && " ELSE ""
SourcePrefix ==
    IF Truthy(Get(Active, "src", None)) THEN "source " \o Str(Active.src) \o " && " ELSE ""
SudoOn == Truthy(Get(Active, "sudo", None))
SshOn == Truthy(Get(Active, "hostname", None))

\* the line that the sudo wrap encloses
Inner == SourcePrefix \o CdPrefix \o Body(Tokens)

\* the line that the ssh wrap encloses
Local == WithSudo(Active, invoker, Inner)

\* s ends with "'" and t is s without a prefix p and that last "'"
Encloses(s, p, t) ==
    /\ Len(s) = Len(p) + Len(t) + 1
    /\ SubSeq(s, 1, Len(p)) = p
    /\ SubSeq(s, Len(p) + 1, Len(s) - 1) = t
    /\ SubSeq(s, Len(s), Len(s)) = "'"

\* C6: the layers nest in a fixed order: source, then cd, then the body; the
\* sudo wrap, when on, encloses that whole line; the ssh wrap, when on,
\* encloses the sudo wrap and everything in it.
C6_LayersNest ==
    built =>
        LET sshPrefix == "ssh" \o (IF Truthy(Get(Active, "ssh_config", None))
                                   THEN " " \o Str(Active.ssh_config) \o " " ELSE " ")
                               \o Str(Get(Active, "user", None)) \o "@"
                               \o Str(Get(Active, "hostname", None)) \o " '"
            local == IF SshOn
                     THEN SubSeq(Rendered, Len(sshPrefix) + 1, Len(Rendered) - 1)
                     ELSE Rendered
        IN  /\ SshOn => Encloses(Rendered, sshPrefix, local)
            /\ IF SudoOn
               THEN \/ local = "sudo " \o Inner
                    \/ \E u \in {"None", "al", "root"} :
                          \/ Encloses(local, "sudo su - " \o u \o " -c '", Inner)
                          \/ Encloses(local, "su - " \o u \o " -c '", Inner)
               ELSE local = Inner

\* all four layers on
C6_Witness ==
    /\ built
    /\ Rendered = "ssh -p 22 al@h 'sudo su - al -c 'source /s && cd /t && ls a;''"

\* C7: with sudo requested the wrap is "sudo su - <user> -c '<body>'" when the
\* context's user differs from the invoking user, else "su - <user> -c
\* '<body>'" when the invoking user is root, else "sudo <body>"; with sudo not
\* requested there is no wrap.
C7_SudoWrapByPriority ==
    built =>
        LET user == Get(Active, "user", None)
            wrapped == IF ~SudoOn THEN Inner
                       ELSE IF user # S(invoker)
                            THEN "sudo su - " \o Str(user) \o " -c '" \o Inner \o "'"
                       ELSE IF invoker = "root"
                            THEN "su - " \o Str(user) \o " -c '" \o Inner \o "'"
                       ELSE "sudo " \o Inner
        IN  Rendered = WithSsh(Active, wrapped)

\* root asking for sudo as another user: the first form, not the second
C7_Witness ==
    /\ invoker = "root"
    /\ Rendered = "sudo su - al -c 'cd /t && ls a;'"

\* root asking for sudo as root: the second form
C7_WitnessRoot ==
    /\ invoker = "root"
    /\ Rendered = "su - root -c 'ls a;'"

\* C8: a builder whose context names no user renders as it would if the
\* context named the invoking user.
C8_UserDefaultsToInvoker ==
    (built /\ _context # <<>> /\ ~Truthy(Get(Active, "user", None))) =>
        Rendered = Sultan__str__(Tokens, Update(Active, [user |-> S(invoker)]), invoker)

\* C9: with a hostname the line is "ssh<opts><user>@<hostname> '<body>'",
\* <body> the whole local line and <opts> the options string with a space on
\* each side, or one space when there are no options; without a hostname
\* there is no ssh wrap, options or not.
C9_SshWrap ==
    built =>
        LET opts == Get(Active, "ssh_config", None)
        IN  IF SshOn
            THEN Rendered = "ssh" \o (IF Truthy(opts) THEN " " \o Str(opts) \o " " ELSE " ")
                                  \o Str(Get(Active, "user", None)) \o "@"
                                  \o Str(Active.hostname) \o " '" \o Local \o "'"
            ELSE Rendered = Local

\* a hostname without options: one space after ssh
C9_Witness ==
    /\ built
    /\ Rendered = "ssh al@h 'sudo ls a;'"

\* a hostname with both options, rendered by Config.__str__
C9_WitnessOptions ==
    /\ built
    /\ Rendered = "ssh -i k -p 22 al@h 'ls a;'"

\* a path argument that is set and does not exist
Missing(path) == Truthy(path) /\ ~exists(Str(path))

\* C10: Sultan.load with a source file or a working directory that does not
\* exist raises and returns no builder; a command call whose where directory
\* or located executable does not exist raises and appends no token.
C10_MissingPathsRaise ==
    [][/\ \A p \in LoadInputs :
             (load(p) /\ (Missing(p.src) \/ Missing(p.cwd))) =>
                 (last'.raised = "IOError" /\ ~built')
       /\ \A h \in Handles("Command"), kwargs \in WhereLists :
             (/\ Command__call__(h, "ls", <<>>, kwargs)
              /\ HasKey(kwargs, "where")
              /\ \/ ~exists(Str(Value(kwargs, "where")))
                 \/ ~exists(PathJoin(Str(Value(kwargs, "where")), "ls"))) =>
                 (last'.raised = "IOError" /\ commands' = commands /\ heap' = heap)
      ]_vars

C11_WitnessHandled ==
    /\ last.op = "run"
    /\ last.args = <<FALSE, [raises |-> TRUE, stdout |-> "", stderr |-> ""]>>
    /\ last.ret[1].traceback = S("Traceback")

\* C12: redirect(to_file, append, stdout, stderr) with stdout and stderr both
\* false raises ValueError and leaves the buffer as it was; with one of them
\* true it raises nothing and appends exactly one token, a Redirect.
C12_RedirectNeedsAStream ==
    [][\A h \in Handles("Redirect"), to_file \in Files,
          append \in BOOLEAN, stdout \in BOOLEAN, stderr \in BOOLEAN :
          Redirect__call__(h, to_file, append, stdout, stderr) =>
              IF ~stdout /\ ~stderr
              THEN /\ last'.raised = "ValueError"
                   /\ commands' = commands
                   /\ heap' = heap
              ELSE /\ last'.raised = ""
                   /\ Len(commands') = Len(commands) + 1
                   /\ SubSeq(commands', 1, Len(commands)) = commands
                   /\ heap'[commands'[Len(commands')]].cls = "Redirect"
      ]_vars

\* a redirect that raised, on a buffer that held two tokens
C12_Witness ==
    /\ last.op = "redirect"
    /\ last.raised = "ValueError"
    /\ Len(commands) = 2

\* the text of a redirect, flag by flag
RedirectText(to_file, append, stdout, stderr) ==
    (CASE stdout /\ stderr -> "&"
       [] stdout /\ ~stderr -> "1"
       [] ~stdout /\ stderr -> "2")
    \o (IF append THEN ">>" ELSE ">") \o " " \o to_file

\* C13: a valid redirect renders as "<descriptor>> <path>", or as
\* "<descriptor>>> <path>" with append, the descriptor 1 for stdout only, 2 for
\* stderr only and & for both, for every combination of the three flags.
C13_RedirectRenders ==
    [][\A h \in Handles("Redirect"), to_file \in Files,
          append \in BOOLEAN, stdout \in BOOLEAN, stderr \in BOOLEAN :
          (Redirect__call__(h, to_file, append, stdout, stderr) /\ (stdout \/ stderr)) =>
              TokenStr(heap'[commands'[Len(commands')]])
                  = RedirectText(Str(to_file), append, stdout, stderr)
      ]_vars

\* s.ls().redirect("f", append=True, stdout=True), rendered
C13_Witness ==
    /\ last.op = "redirect"
    /\ Rendered = "ls 1>> f;"

\* C14: __enter__ on a builder whose context stack is empty raises
\* InvalidContextError, which is none of the errors that load, the chaining
\* calls and run raise, and leaves the buffer and the stack as they were;
\* __enter__ with a context on the stack raises nothing.
C14_EnterNeedsAContext ==
    [][__enter__ =>
          IF Len(_context) = 0
          THEN /\ last'.raised = "InvalidContextError"
               /\ last'.raised \notin {"ValueError", "IOError", "Exception"}
               /\ UNCHANGED <<commands, heap, _context, blocks>>
          ELSE /\ last'.raised = ""
               /\ UNCHANGED <<commands, heap, _context>>
      ]_vars

\* an __enter__ that raised, on a builder with tokens in its buffer
C14_Witness ==
    /\ last.op = "enter"
    /\ last.raised = "InvalidContextError"
    /\ Len(commands) = 2
    /\ _context = <<>>

\* C20: no call on a builder adds a context: the stack holds at most one
\* context, it never grows once the builder is made, and an __exit__ on an
\* empty stack changes nothing and raises nothing of its own.
C20_StackNeverGrows ==
    [][/\ Len(_context) <= 1
       /\ Len(_context') <= 1
       /\ built => Len(_context') <= Len(_context)
       /\ \A type \in ExitTypes :
             (__exit__(type) /\ _context = <<>>) =>
                 /\ last'.raised = type
                 /\ UNCHANGED <<_context, commands, heap>>
      ]_vars

\* an __exit__ that found the stack empty
C20_Witness ==
    /\ last.op = "exit"
    /\ last.raised = ""
    /\ last.before[2] = <<>>
    /\ _context = <<>>

\* C15: constructing a Config raises ValueError if and only if a required key
\* of the class's parameter map is not supplied or a supplied key is not in
\* the map; for SSHConfig that is: if and only if a supplied key is neither
\* identity_file nor port.  A construction that raises hands back no config.
C15_ConfigValidation ==
    last.op = "Config" =>
        LET cls == last.args[1]
            config == last.args[2]
            supplied == {config[i][1] : i \in DOMAIN config}
            recognized == DOMAIN params_map(cls)
            required == {k \in recognized : params_map(cls)[k].required}
        IN  /\ last.raised \in {"", "ValueError"}
            /\ last.raised = "ValueError" <=>
                  (required \ supplied # {} \/ supplied \ recognized # {})
            /\ cls = "SSHConfig" =>
                  (last.raised = "ValueError" <=> ~(supplied \subseteq {"identity_file", "port"}))
            /\ last.raised = "ValueError" => last.ret = <<>>

\* SSHConfig(timeout=5), before any builder is made
C15_Witness ==
    /\ ~built
    /\ last.op = "Config"
    /\ last.args = <<"SSHConfig", <<<<"timeout", S("5")>>>>>>
    /\ last.raised = "ValueError"

\* a class with a required key, constructed without it
C15_WitnessRequired ==
    /\ last.op = "Config"
    /\ last.args = <<"PortConfig", <<>>>>
    /\ last.raised = "ValueError"

\* C16: str(s) leaves the buffer and the context stack as they were, and a
\* second str(s) right after a first returns the same string.
C16_RenderIsPure ==
    [][render =>
          /\ UNCHANGED <<commands, heap, _context>>
          /\ last.op = "str" => last'.ret = last.ret
      ]_vars

\* a rendering of a buffer of two tokens under a context
C16_Witness ==
    /\ last.op = "str"
    /\ last.ret = <<"cd /t && ls |;">>
    /\ Len(commands) = 2
    /\ Len(_context) = 1

\* C17 as stated: clear() and then str(s) gives exactly ";" under any
\* context, and clear() empties the buffer and leaves the stack as it was.
C17_ClearThenRenderIsSemicolon ==
    [][/\ (last.op = "clear" /\ render) => last'.ret = <<";">>
       /\ clear => (commands' = <<>> /\ UNCHANGED _context)
      ]_vars

\* the active context asks for no cd, source, sudo or ssh
NoWrap == CdPrefix = "" /\ SourcePrefix = "" /\ ~SudoOn /\ ~SshOn

\* C17 as amended: clear() and then str(s) gives ";" inside the wraps of the
\* active context, so exactly ";" when the context asks for none (or the
\* stack is empty); clear() empties the buffer and leaves the stack as it was.
C17_ClearThenRender ==
    [][/\ (last.op = "clear" /\ render) =>
             /\ last'.ret = <<WithSsh(Active, WithSudo(Active, invoker,
                                                        SourcePrefix \o CdPrefix \o ";"))>>
             /\ NoWrap => last'.ret = <<";">>
       /\ clear => (commands' = <<>> /\ UNCHANGED _context)
      ]_vars

\* a clear() under a context with a working directory, and the line after it
C17_Witness ==
    /\ last.op = "clear"
    /\ Len(_context) = 1
    /\ Rendered = "cd /t && ;"

\* the segments of a plain command: its name, its options, its arguments
Segments(tok) ==
    <<tok.command,
      Join([i \in DOMAIN tok.kwargs |->
               (IF Len(tok.kwargs[i][1]) = 1 THEN "-" ELSE "--")
                   \o tok.kwargs[i][1] \o "=" \o Str(tok.kwargs[i][2])], " "),
      Join(tok.args, " ")>>

\* C18: a plain command renders as its name, then its options in insertion
\* order, "-k=v" for a name of one character and "--k=v" for a longer one,
\* then its arguments in order, with one space between the segments that are
\* not empty and nothing after the last; the token's fields alone decide it.
C18_CommandRenders ==
    \A i \in DOMAIN Tokens :
        Tokens[i].cls = "Command" =>
            TokenStr(Tokens[i])
                = Join(SelectSeq(Segments(Tokens[i]), LAMBDA seg : seg # ""), " ")

\* s.apt__get("install", "x", y=1, quiet=2), rendered
C18_Witness ==
    /\ Len(commands) = 1
    /\ Rendered = "apt-get -y=1 --quiet=2 install x;"

\* an option and an empty argument: nothing after the option
C18_WitnessNoArgs ==
    /\ Len(commands) = 1
    /\ Tokens[1].args = <<"">>
    /\ Rendered = "ls -l=1;"

\* C19: every chaining call that raises nothing (a plain command, pipe(),
\* and_(), or_(), a valid redirect) appends exactly one token at the end of the
\* buffer, leaves the context stack as it was, and leaves the rendering of
\* every token already in the buffer as it was, also when the call is made on
\* a handle that was called before.
C19_ChainingOnlyAppends ==
    [][(last'.op \in {"command", "pipe", "and_", "or_", "redirect"} /\ last'.raised = "") =>
          /\ Len(commands') = Len(commands) + 1
          /\ UNCHANGED _context
          /\ \A i \in 1..Len(commands) :
                TokenStr(heap'[commands'[i]]) = TokenStr(heap[commands[i]])
      ]_vars

====
